---- MODULE Spec2Model ----
(***************************************************************************)
(* A model of htp, the human time parser: the interpreter                  *)
(* (src/src/interpreter.rs), the conversion into the unified DateTime      *)
(* (src/src/unified.rs), the parser (src/src/parser.rs) and the public     *)
(* entry points (src/src/lib.rs).                                          *)
(*                                                                         *)
(* The library is a set of pure functions.  A behaviour of the model is    *)
(* one call: from the idle state one of the functions is called with       *)
(* inputs drawn from the sample sets below, and the state after the call   *)
(* records the inputs and what the call returned.                          *)
(*                                                                         *)
(* Representation.                                                         *)
(*   Option<T>   <<>> is None, <<x>> is Some(x).                           *)
(*   u32         two 16-bit limbs <<hi, lo>>, value hi * 2^16 + lo, so     *)
(*               that the whole unsigned 32-bit range is there.            *)
(*   usize       four 16-bit limbs, most significant first (a 64-bit       *)
(*               target).                                                  *)
(*   instant     [day, sec, off]: the local calendar day counted from      *)
(*               2020-01-01, the local second of that day, and the UTC     *)
(*               offset in seconds.  Utc(t) is the point in time.          *)
(***************************************************************************)
EXTENDS Integers, Sequences, FiniteSets, TLC

VARIABLES
    op,         \* the function that was called, "idle" before the call
    args,       \* the inputs of the call
    result,     \* what the call returned
    trace       \* the functions the call went through, in order

vars == <<op, args, result, trace>>

(***************************************************************************)
(* Bounds of the model.                                                    *)
(***************************************************************************)
\* the reference instants cover NumDays consecutive days from Monday 2020-07-06
NumDays == 7
\* relative counts 0..MaxN, and the MaxTop largest values of usize
MaxN == 2
MaxTop == 2

(***************************************************************************)
(* Fixed-width integers.                                                   *)
(***************************************************************************)
LimbBase == 256 * 256

\* the u32 with value n, for 0 <= n < 2^31
U32(n) == <<n \div LimbBase, n % LimbBase>>

\* the largest u32 minus k
U32Top(k) == <<LimbBase - 1, LimbBase - 1 - k>>

\* x < k on u32, for a literal k <= 2^16 (h_am_pm < 24, m < 60, s < 60)
U32Lt(x, k) == x[1] = 0 /\ x[2] < k

\* the value of a u32 below 2^16, as a number
U32Small(x) == x[2]

\* x + k on u32: whether it overflows, and the wrapped sum
U32AddOverflows(x, k) == (x[1] + ((x[2] + k) \div LimbBase)) >= LimbBase

U32WrappingAdd(x, k) ==
    LET lo == x[2] + k
        hi == x[1] + (lo \div LimbBase)
    IN  <<hi % LimbBase, lo % LimbBase>>

\* `x as u8`
AsU8(x) == x[2] % 256

\* the usize with value n, for 0 <= n < 2^16
Usize(n) == <<0, 0, 0, n>>

\* the largest usize minus k, for k < 2^16
UsizeTop(k) == <<LimbBase - 1, LimbBase - 1, LimbBase - 1, LimbBase - 1 - k>>

\* `n as i64` of a usize: the two's complement reading of the same 64 bits,
\* as sign and magnitude.  The magnitude is kept as a number when it is below
\* 2^16 (big = FALSE): up to there every duration the interpreter builds from
\* it keeps the result inside the range of both date-time libraries.
AsI64(n) ==
    IF n[1] < LimbBase \div 2
    THEN [neg |-> FALSE, big |-> n[1] # 0 \/ n[2] # 0 \/ n[3] # 0,
          mag |-> n[4]]
    ELSE \* 2^64 - n, limb by limb
         LET c4 == LimbBase - n[4]
             l4 == c4 % LimbBase
             c3 == (LimbBase - 1 - n[3]) + (c4 \div LimbBase)
             l3 == c3 % LimbBase
             c2 == (LimbBase - 1 - n[2]) + (c3 \div LimbBase)
             l2 == c2 % LimbBase
             c1 == (LimbBase - 1 - n[1]) + (c2 \div LimbBase)
             l1 == c1 % LimbBase
         IN  [neg |-> TRUE, big |-> l1 # 0 \/ l2 # 0 \/ l3 # 0,
              mag |-> l4]

(***************************************************************************)
(* Results.                                                                *)
(***************************************************************************)
Ok(v) == [tag |-> "Ok", val |-> v]
Err(e) == [tag |-> "Err", err |-> e]
\* the call did not return: the thread panicked
Panic(msg) == [tag |-> "Panic", msg |-> msg]

IsOk(r) == r.tag = "Ok"
IsErr(r) == r.tag = "Err"
IsPanic(r) == r.tag = "Panic"

\* `r?` and what follows it: F of the value of an Ok, and anything else returned
\* as it is
Try(r, F(_)) == IF IsOk(r) THEN F(r.val) ELSE r

(***************************************************************************)
(* EvaluationError                                                         *)
(***************************************************************************)
InvalidTimeAMPM(h, m, s, am_or_pm) ==
    [kind |-> "InvalidTimeAMPM", hour |-> h, minute |-> m, second |-> s,
     am_or_pm |-> am_or_pm]

InvalidTime(h, m, s) ==
    [kind |-> "InvalidTime", hour |-> h, minute |-> m, second |-> s]

ChronoISOError(year, month, day, h, m, s) ==
    [kind |-> "ChronoISOError", year |-> year, month |-> month, day |-> day,
     hour |-> h, minute |-> m, second |-> s]

(***************************************************************************)
(* check_hms.  overflow_checks is the build's setting for integer          *)
(* overflow: with it `h + 12` panics when it overflows, without it the sum *)
(* wraps.                                                                  *)
(***************************************************************************)
\* A variant of check_hms that leaves the hour of a PM time as it is
check_hms_unshifted(hms, am_or_pm_maybe, overflow_checks) ==
    IF U32Lt(hms[1], 24) /\ U32Lt(hms[2], 60) /\ U32Lt(hms[3], 60)
    THEN Ok(hms)
    ELSE IF am_or_pm_maybe # <<>>
    THEN Err(InvalidTimeAMPM(hms[1], hms[2], hms[3], am_or_pm_maybe[1]))
    ELSE Err(InvalidTime(hms[1], hms[2], hms[3]))

\* A variant of check_hms whose errors carry the hour after the adjustment, and
\* InvalidTime for an AM time
check_hms_adjusted_hour(hms, am_or_pm_maybe, overflow_checks) ==
    LET pm == am_or_pm_maybe = <<"PM">>
        h_am_pm == IF pm THEN U32WrappingAdd(hms[1], 12) ELSE hms[1]
    IN  IF pm /\ overflow_checks /\ U32AddOverflows(hms[1], 12)
        THEN Panic("attempt to add with overflow")
        ELSE IF U32Lt(h_am_pm, 24) /\ U32Lt(hms[2], 60) /\ U32Lt(hms[3], 60)
        THEN Ok(<<h_am_pm, hms[2], hms[3]>>)
        ELSE IF pm
        THEN Err(InvalidTimeAMPM(h_am_pm, hms[2], hms[3], "PM"))
        ELSE Err(InvalidTime(hms[1], hms[2], hms[3]))

check_hms(hms, am_or_pm_maybe, overflow_checks) ==
    LET h == hms[1]
        m == hms[2]
        s == hms[3]
        pm == am_or_pm_maybe = <<"PM">>
        h_am_pm == IF pm THEN U32WrappingAdd(h, 12) ELSE h
    IN  IF pm /\ overflow_checks /\ U32AddOverflows(h, 12)
        THEN Panic("attempt to add with overflow")
        ELSE IF U32Lt(h_am_pm, 24) /\ U32Lt(m, 60) /\ U32Lt(s, 60)
        THEN Ok(<<h_am_pm, m, s>>)
        ELSE IF am_or_pm_maybe # <<>>
        THEN Err(InvalidTimeAMPM(h, m, s, am_or_pm_maybe[1]))
        ELSE Err(InvalidTime(h, m, s))

(***************************************************************************)
(* The calendar of the date-time library (chrono, time): proleptic         *)
(* Gregorian, days counted from 2020-01-01, a Wednesday.                   *)
(***************************************************************************)
SecondsPerDay == 24 * 60 * 60

IsLeap(y) == (y % 4 = 0 /\ y % 100 # 0) \/ y % 400 = 0

DaysInYear(y) == IF IsLeap(y) THEN 366 ELSE 365

DaysInMonth(y, m) ==
    CASE m = 2 -> IF IsLeap(y) THEN 29 ELSE 28
      [] m \in {4, 6, 9, 11} -> 30
      [] OTHER -> 31

RECURSIVE DaysBeforeYear(_)
DaysBeforeYear(y) ==
    IF y = 2020 THEN 0
    ELSE IF y > 2020 THEN DaysBeforeYear(y - 1) + DaysInYear(y - 1)
    ELSE DaysBeforeYear(y + 1) - DaysInYear(y)

RECURSIVE DaysBeforeMonth(_, _)
DaysBeforeMonth(y, m) ==
    IF m = 1 THEN 0 ELSE DaysBeforeMonth(y, m - 1) + DaysInMonth(y, m - 1)

\* whether year-month-day is a day of the calendar
ValidDate(y, m, d) == m \in 1..12 /\ d >= 1 /\ d <= DaysInMonth(y, m)

ValidTime(h, m, s) == h < 24 /\ m < 60 /\ s < 60

DaysFromCivil(y, m, d) == DaysBeforeYear(y) + DaysBeforeMonth(y, m) + (d - 1)

Weekdays == <<"Mon", "Tue", "Wed", "Thu", "Fri", "Sat", "Sun">>

num_days_from_monday(w) == CHOOSE i \in 0..6 : Weekdays[i + 1] = w

(***************************************************************************)
(* Instants, dates and durations of the date-time library.                 *)
(***************************************************************************)
Instant(day, sec, off) == [day |-> day, sec |-> sec, off |-> off]

\* the point in time, in seconds of UTC since 2020-01-01T00:00:00Z
Utc(t) == t.day * SecondsPerDay + t.sec - t.off

\* a < b on instants compares the points in time
Before(a, b) == Utc(a) < Utc(b)

\* now.weekday()
weekday(t) == Weekdays[((t.day + 2) % 7) + 1]

\* now.date(): the calendar day in the instant's own offset
date(t) == [day |-> t.day, off |-> t.off]

DateAddDays(d, k) == [day |-> d.day + k, off |-> d.off]

\* date.and_hms(h, m, s) of chrono, for h < 24, m < 60, s < 60
and_hms(d, h, m, s) == Instant(d.day, h * 3600 + m * 60 + s, d.off)

\* date.with_hms(h, m, s) of time: a PrimitiveDateTime or a range error
with_hms(d, h, m, s) ==
    IF ValidTime(h, m, s)
    THEN Ok([day |-> d.day, sec |-> h * 3600 + m * 60 + s])
    ELSE Err("ComponentRange")

\* primitive.assume_offset(offset)
assume_offset(p, off) == Instant(p.day, p.sec, off)

\* a duration as whole days and seconds, both of the duration's sign
Duration(days, secs) == [days |-> days, secs |-> secs]

Sign(i) == IF i.neg THEN -1 ELSE 1

Duration_minutes(i) ==
    Duration(Sign(i) * (i.mag \div (24 * 60)), Sign(i) * ((i.mag % (24 * 60)) * 60))

Duration_hours(i) ==
    Duration(Sign(i) * (i.mag \div 24), Sign(i) * ((i.mag % 24) * 3600))

Duration_days(i) == Duration(Sign(i) * i.mag, 0)

Duration_weeks(i) == Duration(Sign(i) * (7 * i.mag), 0)

\* 30 * i on i64
I64Times30(i) == [neg |-> i.neg, big |-> i.big, mag |-> 30 * i.mag]

\* t + d and t - d on instants: the offset is kept
Add(t, d) ==
    LET s == t.sec + d.secs
    IN  Instant(t.day + d.days + (s \div SecondsPerDay), s % SecondsPerDay, t.off)

Sub(t, d) == Add(t, Duration(-d.days, -d.secs))

\* t.with_timezone(&tz) of chrono: the same point in time read in another offset
with_timezone(t, off) ==
    LET s == t.sec - t.off + off
    IN  Instant(t.day + (s \div SecondsPerDay), s % SecondsPerDay, off)

\* t.replace_offset(offset) of time: the same local date and time, another offset
replace_offset(t, off) == Instant(t.day, t.sec, off)

(***************************************************************************)
(* TimeClue (parser.rs)                                                    *)
(***************************************************************************)
Now == [kind |-> "Now"]

Time(hms, am_or_pm_maybe) ==
    [kind |-> "Time", hms |-> hms, am_or_pm_maybe |-> am_or_pm_maybe]

Relative(n, quantifier) == [kind |-> "Relative", n |-> n, quantifier |-> quantifier]

RelativeFuture(n, quantifier) ==
    [kind |-> "RelativeFuture", n |-> n, quantifier |-> quantifier]

RelativeDayAt(modifier, wd, hms_maybe, am_or_pm_maybe) ==
    [kind |-> "RelativeDayAt", modifier |-> modifier, weekday |-> wd,
     hms_maybe |-> hms_maybe, am_or_pm_maybe |-> am_or_pm_maybe]

SameWeekDayAt(wd, hms_maybe, am_or_pm_maybe) ==
    [kind |-> "SameWeekDayAt", weekday |-> wd,
     hms_maybe |-> hms_maybe, am_or_pm_maybe |-> am_or_pm_maybe]

ShortcutDayAt(rday, hms_maybe, am_or_pm_maybe) ==
    [kind |-> "ShortcutDayAt", rday |-> rday,
     hms_maybe |-> hms_maybe, am_or_pm_maybe |-> am_or_pm_maybe]

ISO(ymd, hms) == [kind |-> "ISO", ymd |-> ymd, hms |-> hms]

\* the (u32, u32, u32) of three small numbers
Hms(h, m, s) == <<U32(h), U32(m), U32(s)>>

\* hms_maybe.unwrap_or((0, 0, 0))
unwrap_or_midnight(hms_maybe) ==
    IF hms_maybe = <<>> THEN Hms(0, 0, 0) ELSE hms_maybe[1]

(***************************************************************************)
(* evaluate_time_clue, built with chrono                                   *)
(***************************************************************************)
\* date.and_hms(h, m, s) on the u32 values check_hms returned
chrono_at(d, hms) == and_hms(d, U32Small(hms[1]), U32Small(hms[2]), U32Small(hms[3]))

chrono_relative(n, quantifier, now) ==
    CASE quantifier = "Min" -> Ok(Sub(now, Duration_minutes(AsI64(n))))
      [] quantifier = "Hours" -> Ok(Sub(now, Duration_hours(AsI64(n))))
      [] quantifier = "Days" -> Ok(Sub(now, Duration_days(AsI64(n))))
      [] quantifier = "Weeks" -> Ok(Sub(now, Duration_weeks(AsI64(n))))
      [] quantifier = "Months" -> Ok(Sub(now, Duration_days(I64Times30(AsI64(n)))))

chrono_relative_future(n, quantifier, now) ==
    CASE quantifier = "Min" -> Ok(Add(now, Duration_minutes(AsI64(n))))
      [] quantifier = "Hours" -> Ok(Add(now, Duration_hours(AsI64(n))))
      [] quantifier = "Days" -> Ok(Add(now, Duration_days(AsI64(n))))
      [] quantifier = "Weeks" -> Ok(Add(now, Duration_weeks(AsI64(n))))
      [] quantifier = "Months" -> Ok(Add(now, Duration_days(I64Times30(AsI64(n)))))

\* A variant of chrono_relative_day_at in which Last stays in the week when the
\* weekday is the reference weekday (<= where the code has <)
chrono_relative_day_at_lenient(modifier, wd, hms, now) ==
    LET monday == DateAddDays(date(now), -num_days_from_monday(weekday(now)))
        same_week_day == DateAddDays(monday, num_days_from_monday(wd))
    IN  CASE modifier = "Last" ->
               IF num_days_from_monday(wd) <= num_days_from_monday(weekday(now))
               THEN Ok(chrono_at(same_week_day, hms))
               ELSE Ok(Sub(chrono_at(same_week_day, hms), Duration(7, 0)))
          [] modifier = "Next" ->
               IF num_days_from_monday(wd) > num_days_from_monday(weekday(now))
               THEN Ok(chrono_at(same_week_day, hms))
               ELSE Ok(Add(chrono_at(same_week_day, hms), Duration(7, 0)))

\* A variant of chrono_relative_day_at that always leaves the week: a week
\* back for Last, a week ahead for Next
chrono_relative_day_at_other_week(modifier, wd, hms, now) ==
    LET monday == DateAddDays(date(now), -num_days_from_monday(weekday(now)))
        same_week_day == DateAddDays(monday, num_days_from_monday(wd))
    IN  CASE modifier = "Last" -> Ok(Sub(chrono_at(same_week_day, hms), Duration(7, 0)))
          [] modifier = "Next" -> Ok(Add(chrono_at(same_week_day, hms), Duration(7, 0)))

chrono_relative_day_at(modifier, wd, hms, now) ==
    LET monday == DateAddDays(date(now), -num_days_from_monday(weekday(now)))
        same_week_day == DateAddDays(monday, num_days_from_monday(wd))
    IN  CASE modifier = "Last" ->
               IF num_days_from_monday(wd) < num_days_from_monday(weekday(now))
               THEN Ok(chrono_at(same_week_day, hms))
               ELSE Ok(Sub(chrono_at(same_week_day, hms), Duration(7, 0)))
          [] modifier = "Next" ->
               IF num_days_from_monday(wd) > num_days_from_monday(weekday(now))
               THEN Ok(chrono_at(same_week_day, hms))
               ELSE Ok(Add(chrono_at(same_week_day, hms), Duration(7, 0)))

\* A variant of chrono_same_week_day_at that resolves to the next occurrence of
\* the weekday, counted from the reference day, and so can leave the week
chrono_same_week_day_at_ahead(wd, hms, now) ==
    Ok(chrono_at(DateAddDays(date(now),
                             (num_days_from_monday(wd)
                                - num_days_from_monday(weekday(now))) % 7),
                 hms))

chrono_same_week_day_at(wd, hms, now) ==
    LET monday == DateAddDays(date(now), -num_days_from_monday(weekday(now)))
    IN  Ok(chrono_at(DateAddDays(monday, num_days_from_monday(wd)), hms))

\* A variant of chrono_shortcut_day_at with the shifts of Yesterday and
\* Tomorrow exchanged
chrono_shortcut_day_at_swapped(rday, hms, now) ==
    CASE rday = "Today" -> Ok(chrono_at(date(now), hms))
      [] rday = "Yesterday" -> Ok(chrono_at(DateAddDays(date(now), 1), hms))
      [] rday = "Tomorrow" -> Ok(chrono_at(DateAddDays(date(now), -1), hms))

chrono_shortcut_day_at(rday, hms, now) ==
    CASE rday = "Today" -> Ok(chrono_at(date(now), hms))
      [] rday = "Yesterday" -> Ok(chrono_at(DateAddDays(date(now), -1), hms))
      [] rday = "Tomorrow" -> Ok(chrono_at(DateAddDays(date(now), 1), hms))

\* A variant of ymd_and_hms_opt that takes every day 1..31 of every month
ymd_and_hms_opt_lenient(ymd, hms) ==
    IF /\ \A i \in 2..3 : ymd[i][1] = 0
       /\ \A i \in 1..3 : hms[i][1] = 0
       /\ U32Small(ymd[2]) \in 1..12
       /\ U32Small(ymd[3]) \in 1..31
       /\ ValidTime(U32Small(hms[1]), U32Small(hms[2]), U32Small(hms[3]))
    THEN <<Instant(DaysFromCivil(ymd[1], U32Small(ymd[2]), U32Small(ymd[3])),
                   U32Small(hms[1]) * 3600 + U32Small(hms[2]) * 60 + U32Small(hms[3]),
                   0)>>
    ELSE <<>>

\* Utc.ymd_opt(year, month, day).and_hms_opt(h, m, s): Single(utc) or None
ymd_and_hms_opt(ymd, hms) ==
    LET fits == \A i \in 2..3 : ymd[i][1] = 0
        fitsT == \A i \in 1..3 : hms[i][1] = 0
    IN  IF /\ fits
           /\ fitsT
           /\ ValidDate(ymd[1], U32Small(ymd[2]), U32Small(ymd[3]))
           /\ ValidTime(U32Small(hms[1]), U32Small(hms[2]), U32Small(hms[3]))
        THEN <<Instant(DaysFromCivil(ymd[1], U32Small(ymd[2]), U32Small(ymd[3])),
                       U32Small(hms[1]) * 3600 + U32Small(hms[2]) * 60 + U32Small(hms[3]),
                       0)>>
        ELSE <<>>

\* match utc { LocalResult::Single(utc) => ..., _ => Err(ChronoISOError { .. }) }
chrono_iso_match(utc, ymd, hms, now) ==
    IF utc # <<>>
    THEN Ok(with_timezone(utc[1], now.off))
    ELSE Err(ChronoISOError(ymd[1], ymd[2], ymd[3], hms[1], hms[2], hms[3]))

chrono_iso(ymd, hms, now) == chrono_iso_match(ymd_and_hms_opt(ymd, hms), ymd, hms, now)

\* A variant of chrono_now that gives the start of the reference day
chrono_now_midnight(now) == Ok(and_hms(date(now), 0, 0, 0))

\* TimeClue::Now => Ok(now)
chrono_now(now) == Ok(now)

\* A variant of chrono_time that also rolls a time equal to the reference
\* instant (<= where the code has <)
chrono_time_not_strict(hms, now, assume_next_day) ==
    IF assume_next_day /\ ~Before(now, chrono_at(date(now), hms))
    THEN Ok(Add(chrono_at(date(now), hms), Duration(1, 0)))
    ELSE Ok(chrono_at(date(now), hms))

chrono_time(hms, now, assume_next_day) ==
    IF assume_next_day /\ Before(chrono_at(date(now), hms), now)
    THEN Ok(Add(chrono_at(date(now), hms), Duration(1, 0)))
    ELSE Ok(chrono_at(date(now), hms))

evaluate_time_clue_chrono(time_clue, now, assume_next_day, overflow_checks) ==
    CASE time_clue.kind = "Now" -> chrono_now(now)
      [] time_clue.kind = "Time" ->
           Try(check_hms(time_clue.hms, time_clue.am_or_pm_maybe, overflow_checks),
               LAMBDA hms : chrono_time(hms, now, assume_next_day))
      [] time_clue.kind = "Relative" ->
           chrono_relative(time_clue.n, time_clue.quantifier, now)
      [] time_clue.kind = "RelativeFuture" ->
           chrono_relative_future(time_clue.n, time_clue.quantifier, now)
      [] time_clue.kind = "RelativeDayAt" ->
           Try(check_hms(unwrap_or_midnight(time_clue.hms_maybe),
                         time_clue.am_or_pm_maybe, overflow_checks),
               LAMBDA hms : chrono_relative_day_at(time_clue.modifier, time_clue.weekday,
                                                   hms, now))
      [] time_clue.kind = "SameWeekDayAt" ->
           Try(check_hms(unwrap_or_midnight(time_clue.hms_maybe),
                         time_clue.am_or_pm_maybe, overflow_checks),
               LAMBDA hms : chrono_same_week_day_at(time_clue.weekday, hms, now))
      [] time_clue.kind = "ShortcutDayAt" ->
           Try(check_hms(unwrap_or_midnight(time_clue.hms_maybe),
                         time_clue.am_or_pm_maybe, overflow_checks),
               LAMBDA hms : chrono_shortcut_day_at(time_clue.rday, hms, now))
      [] time_clue.kind = "ISO" -> chrono_iso(time_clue.ymd, time_clue.hms, now)

(***************************************************************************)
(* evaluate_time_clue, built with time                                     *)
(***************************************************************************)
\* date.with_hms(h as u8, m as u8, s as u8)
\*     .map_err(|_| InvalidTime { hour: h, minute: m, second: s })?
\*     .assume_offset(now.offset())
map_err_invalid_time(p, hms, off) ==
    IF IsOk(p)
    THEN Ok(assume_offset(p.val, off))
    ELSE Err(InvalidTime(hms[1], hms[2], hms[3]))

time_at(d, hms, off) ==
    map_err_invalid_time(with_hms(d, AsU8(hms[1]), AsU8(hms[2]), AsU8(hms[3])), hms, off)

time_relative(n, quantifier, now) ==
    CASE quantifier = "Min" -> Ok(Sub(now, Duration_minutes(AsI64(n))))
      [] quantifier = "Hours" -> Ok(Sub(now, Duration_hours(AsI64(n))))
      [] quantifier = "Days" -> Ok(Sub(now, Duration_days(AsI64(n))))
      [] quantifier = "Weeks" -> Ok(Sub(now, Duration_weeks(AsI64(n))))
      [] quantifier = "Months" -> Ok(Sub(now, Duration_days(I64Times30(AsI64(n)))))

time_relative_future(n, quantifier, now) ==
    CASE quantifier = "Min" -> Ok(Add(now, Duration_minutes(AsI64(n))))
      [] quantifier = "Hours" -> Ok(Add(now, Duration_hours(AsI64(n))))
      [] quantifier = "Days" -> Ok(Add(now, Duration_days(AsI64(n))))
      [] quantifier = "Weeks" -> Ok(Add(now, Duration_weeks(AsI64(n))))
      [] quantifier = "Months" -> Ok(Add(now, Duration_days(I64Times30(AsI64(n)))))

\* A variant of time_relative_day_at in which Next stays in the week when the
\* weekday is the reference weekday (>= where the code has >)
time_relative_day_at_lenient(modifier, wd, hms, now) ==
    LET monday == DateAddDays(date(now), -num_days_from_monday(weekday(now)))
        same_week_day == DateAddDays(monday, num_days_from_monday(wd))
    IN  CASE modifier = "Last" ->
               IF num_days_from_monday(wd) < num_days_from_monday(weekday(now))
               THEN time_at(same_week_day, hms, now.off)
               ELSE Try(time_at(same_week_day, hms, now.off),
                        LAMBDA at : Ok(Sub(at, Duration(7, 0))))
          [] modifier = "Next" ->
               IF num_days_from_monday(wd) >= num_days_from_monday(weekday(now))
               THEN time_at(same_week_day, hms, now.off)
               ELSE Try(time_at(same_week_day, hms, now.off),
                        LAMBDA at : Ok(Add(at, Duration(7, 0))))

time_relative_day_at(modifier, wd, hms, now) ==
    LET monday == DateAddDays(date(now), -num_days_from_monday(weekday(now)))
        same_week_day == DateAddDays(monday, num_days_from_monday(wd))
    IN  CASE modifier = "Last" ->
               IF num_days_from_monday(wd) < num_days_from_monday(weekday(now))
               THEN time_at(same_week_day, hms, now.off)
               ELSE Try(time_at(same_week_day, hms, now.off),
                        LAMBDA at : Ok(Sub(at, Duration(7, 0))))
          [] modifier = "Next" ->
               IF num_days_from_monday(wd) > num_days_from_monday(weekday(now))
               THEN time_at(same_week_day, hms, now.off)
               ELSE Try(time_at(same_week_day, hms, now.off),
                        LAMBDA at : Ok(Add(at, Duration(7, 0))))

time_same_week_day_at(wd, hms, now) ==
    LET monday == DateAddDays(date(now), -num_days_from_monday(weekday(now)))
    IN  time_at(DateAddDays(monday, num_days_from_monday(wd)), hms, now.off)

time_shortcut_day_at(rday, hms, now) ==
    CASE rday = "Today" -> time_at(date(now), hms, now.off)
      [] rday = "Yesterday" -> time_at(DateAddDays(date(now), -1), hms, now.off)
      [] rday = "Tomorrow" -> time_at(DateAddDays(date(now), 1), hms, now.off)

\* OffsetDateTime::parse(&format!("{year:>04}-{month:>02}-{day:>02} {h:>02}:{m:>02}:{s:>02}"),
\*                       format_description!("YYYY-mm-dd HH:MM:SS"))
\* A format description of time names its components in brackets ([year],
\* [month], ...); this one has none, so it is one literal, the nineteen
\* characters "YYYY-mm-dd HH:MM:SS", and an input must be those characters.
\* The input is built from numbers: its first character is a digit, a space or
\* a sign, never "Y".
OffsetDateTime_parse(ymd, hms) == Err("InvalidLiteral")

\* .map_err(|_| ChronoISOError { .. })? and Ok(utc.replace_offset(now.offset()))
time_iso_match(utc, ymd, hms, now) ==
    IF IsOk(utc)
    THEN Ok(replace_offset(utc.val, now.off))
    ELSE Err(ChronoISOError(ymd[1], ymd[2], ymd[3], hms[1], hms[2], hms[3]))

time_iso(ymd, hms, now) == time_iso_match(OffsetDateTime_parse(ymd, hms), ymd, hms, now)

time_time(d, now, assume_next_day) ==
    IF assume_next_day /\ Before(d, now) THEN Ok(Add(d, Duration(1, 0))) ELSE Ok(d)

evaluate_time_clue_time(time_clue, now, assume_next_day, overflow_checks) ==
    CASE time_clue.kind = "Now" -> Ok(now)
      [] time_clue.kind = "Time" ->
           Try(check_hms(time_clue.hms, time_clue.am_or_pm_maybe, overflow_checks),
               LAMBDA hms : Try(time_at(date(now), hms, now.off),
                                LAMBDA d : time_time(d, now, assume_next_day)))
      [] time_clue.kind = "Relative" ->
           time_relative(time_clue.n, time_clue.quantifier, now)
      [] time_clue.kind = "RelativeFuture" ->
           time_relative_future(time_clue.n, time_clue.quantifier, now)
      [] time_clue.kind = "RelativeDayAt" ->
           Try(check_hms(unwrap_or_midnight(time_clue.hms_maybe),
                         time_clue.am_or_pm_maybe, overflow_checks),
               LAMBDA hms : time_relative_day_at(time_clue.modifier, time_clue.weekday,
                                                 hms, now))
      [] time_clue.kind = "SameWeekDayAt" ->
           Try(check_hms(unwrap_or_midnight(time_clue.hms_maybe),
                         time_clue.am_or_pm_maybe, overflow_checks),
               LAMBDA hms : time_same_week_day_at(time_clue.weekday, hms, now))
      [] time_clue.kind = "ShortcutDayAt" ->
           Try(check_hms(unwrap_or_midnight(time_clue.hms_maybe),
                         time_clue.am_or_pm_maybe, overflow_checks),
               LAMBDA hms : time_shortcut_day_at(time_clue.rday, hms, now))
      [] time_clue.kind = "ISO" -> time_iso(time_clue.ymd, time_clue.hms, now)

(***************************************************************************)
(* The interpreter's public functions.  backend is the date-time library   *)
(* the crate was built with (the cargo feature "chrono" or "time").        *)
(***************************************************************************)
\* r, moved a week ahead when the flag is set and r is before now
rolled_a_week(r, now, assume_next_day) ==
    IF assume_next_day /\ IsOk(r) /\ Before(r.val, now)
    THEN Ok(Add(r.val, Duration(7, 0)))
    ELSE r

\* a variant in which the flag also rolls a bare weekday forward
evaluate_time_clue_rolling_weekday(time_clue, now, assume_next_day, backend, overflow_checks) ==
    IF time_clue.kind = "SameWeekDayAt"
    THEN IF backend = "chrono"
         THEN rolled_a_week(evaluate_time_clue_chrono(time_clue, now, assume_next_day,
                                                      overflow_checks),
                            now, assume_next_day)
         ELSE rolled_a_week(evaluate_time_clue_time(time_clue, now, assume_next_day,
                                                    overflow_checks),
                            now, assume_next_day)
    ELSE IF backend = "chrono"
    THEN evaluate_time_clue_chrono(time_clue, now, assume_next_day, overflow_checks)
    ELSE evaluate_time_clue_time(time_clue, now, assume_next_day, overflow_checks)

evaluate_time_clue(time_clue, now, assume_next_day, backend, overflow_checks) ==
    IF backend = "chrono"
    THEN evaluate_time_clue_chrono(time_clue, now, assume_next_day, overflow_checks)
    ELSE evaluate_time_clue_time(time_clue, now, assume_next_day, overflow_checks)

evaluate(time_clue, now, backend, overflow_checks) ==
    evaluate_time_clue(time_clue, now, FALSE, backend, overflow_checks)

(***************************************************************************)
(* The conversion into the unified DateTime (unified.rs).  The unified     *)
(* value holds the backend's instant; the conversion sets its offset to    *)
(* UTC: chrono's with_timezone keeps the point in time, time's             *)
(* replace_offset keeps the local date and time.                           *)
(***************************************************************************)
DateTime_from(t, backend) ==
    IF backend = "chrono" THEN with_timezone(t, 0) ELSE replace_offset(t, 0)

(***************************************************************************)
(* ParseError (parser.rs)                                                  *)
(***************************************************************************)
ParseInt == [kind |-> "ParseInt"]

PestError == [kind |-> "PestError"]

UnexpectedNonMatchingPattern == [kind |-> "UnexpectedNonMatchingPattern"]

UnknownWeekday(s) == [kind |-> "UnknownWeekday", text |-> s]

UnknownShortcutDay(s) == [kind |-> "UnknownShortcutDay", text |-> s]

UnknownModifier(s) == [kind |-> "UnknownModifier", text |-> s]

UnknownQuantifier(s) == [kind |-> "UnknownQuantifier", text |-> s]

UnknownAMPM(s) == [kind |-> "UnknownAMPM", text |-> s]

(***************************************************************************)
(* The token conversions of parser.rs.  The text of a number is modelled   *)
(* by its value, five 16-bit limbs, most significant first, so that a      *)
(* number can be too large for the type it is parsed into.                 *)
(***************************************************************************)
weekday_from(s) ==
    CASE s \in {"monday", "mon"} -> Ok("Mon")
      [] s \in {"tuesday", "tue"} -> Ok("Tue")
      [] s \in {"wednesday", "wed"} -> Ok("Wed")
      [] s \in {"thursday", "thu"} -> Ok("Thu")
      [] s \in {"friday", "fri"} -> Ok("Fri")
      [] s \in {"saturday", "sat"} -> Ok("Sat")
      [] s \in {"sunday", "sun"} -> Ok("Sun")
      [] OTHER -> Err(UnknownWeekday(s))

\* a variant that reads any other token as AM
am_or_pm_from_lenient(s) ==
    CASE s = "pm" -> Ok("PM")
      [] OTHER -> Ok("AM")

am_or_pm_from(s) ==
    CASE s = "am" -> Ok("AM")
      [] s = "pm" -> Ok("PM")
      [] OTHER -> Err(UnknownAMPM(s))

shortcut_day_from(s) ==
    CASE s = "today" -> Ok("Today")
      [] s = "yesterday" -> Ok("Yesterday")
      [] s = "tomorrow" -> Ok("Tomorrow")
      [] OTHER -> Err(UnknownShortcutDay(s))

modifier_from(s) ==
    CASE s = "last" -> Ok("Last")
      [] s = "next" -> Ok("Next")
      [] OTHER -> Err(UnknownModifier(s))

quantifier_from(s) ==
    CASE s = "min" -> Ok("Min")
      [] s \in {"hours", "hour", "h"} -> Ok("Hours")
      [] s \in {"days", "day", "d"} -> Ok("Days")
      [] s \in {"weeks", "week", "w"} -> Ok("Weeks")
      [] s \in {"months", "month"} -> Ok("Months")
      [] OTHER -> Err(UnknownQuantifier(s))

\* str::parse::<u32>()
parse_u32(v) ==
    IF v[1] = 0 /\ v[2] = 0 /\ v[3] = 0 THEN Ok(<<v[4], v[5]>>) ELSE Err(ParseInt)

\* str::parse::<usize>()
parse_usize(v) ==
    IF v[1] = 0 THEN Ok(<<v[2], v[3], v[4], v[5]>>) ELSE Err(ParseInt)

\* str::parse::<i32>() of a text of digits
parse_i32(v) ==
    IF v[1] = 0 /\ v[2] = 0 /\ v[3] = 0 /\ v[4] < LimbBase \div 2
    THEN Ok(v[4] * LimbBase + v[5])
    ELSE Err(ParseInt)

(***************************************************************************)
(* parse_time_hms and parse_time_clue of parser.rs, on the flattened       *)
(* pairs <<rule, text>> of the grammar.                                    *)
(***************************************************************************)
Rules(pairs) == [i \in 1..Len(pairs) |-> pairs[i][1]]

\* the texts of pairs, each parsed as u32: the values, or the first error
\* (each `parse()?` in turn)
RECURSIVE parse_hms_fields(_, _)
parse_hms_fields(pairs, done) ==
    IF pairs = <<>> THEN Ok(done)
    ELSE Try(parse_u32(pairs[1][2]),
             LAMBDA x : parse_hms_fields(Tail(pairs), Append(done, x)))

\* (h, m, s) with the missing fields 0
hms_of(fields) ==
    <<fields[1],
      IF Len(fields) >= 2 THEN fields[2] ELSE U32(0),
      IF Len(fields) >= 3 THEN fields[3] ELSE U32(0)>>

\* a variant that refuses an hour of 24 or more
parse_time_hms_validating(rules_and_str) ==
    IF Rules(rules_and_str)[1] = "hms" /\ IsOk(parse_u32(rules_and_str[1][2]))
       /\ ~U32Lt(parse_u32(rules_and_str[1][2]).val, 24)
    THEN Err(UnexpectedNonMatchingPattern)
    ELSE IF Rules(rules_and_str) \in {<<"hms">>, <<"hms", "hms">>, <<"hms", "hms", "hms">>}
    THEN Try(parse_hms_fields(rules_and_str, <<>>),
             LAMBDA f : Ok(Time(hms_of(f), <<>>)))
    ELSE IF Rules(rules_and_str) \in
                {<<"hms", "am_or_pm">>, <<"hms", "hms", "am_or_pm">>,
                 <<"hms", "hms", "hms", "am_or_pm">>}
    THEN Try(parse_hms_fields(SubSeq(rules_and_str, 1, Len(rules_and_str) - 1), <<>>),
             LAMBDA f : Try(am_or_pm_from(rules_and_str[Len(rules_and_str)][2]),
                            LAMBDA am_or_pm : Ok(Time(hms_of(f), <<am_or_pm>>))))
    ELSE Err(UnexpectedNonMatchingPattern)

parse_time_hms(rules_and_str) ==
    IF Rules(rules_and_str) \in {<<"hms">>, <<"hms", "hms">>, <<"hms", "hms", "hms">>}
    THEN Try(parse_hms_fields(rules_and_str, <<>>),
             LAMBDA f : Ok(Time(hms_of(f), <<>>)))
    ELSE IF Rules(rules_and_str) \in
                {<<"hms", "am_or_pm">>, <<"hms", "hms", "am_or_pm">>,
                 <<"hms", "hms", "hms", "am_or_pm">>}
    THEN Try(parse_hms_fields(SubSeq(rules_and_str, 1, Len(rules_and_str) - 1), <<>>),
             LAMBDA f : Try(am_or_pm_from(rules_and_str[Len(rules_and_str)][2]),
                            LAMBDA am_or_pm : Ok(Time(hms_of(f), <<am_or_pm>>))))
    ELSE Err(UnexpectedNonMatchingPattern)

\* the mday patterns of the day_at production
parse_mday(mday) ==
    LET r == Rules(mday)
        n == Len(mday)
    IN  IF n >= 3 /\ SubSeq(r, 1, 3) = <<"modifier", "weekday", "time">>
        THEN Try(parse_time_hms(SubSeq(mday, 4, n)),
                 LAMBDA tm : Try(modifier_from(mday[1][2]),
                 LAMBDA m : Try(weekday_from(mday[2][2]),
                 LAMBDA w : Ok(RelativeDayAt(m, w, <<tm.hms>>, tm.am_or_pm_maybe)))))
        ELSE IF r = <<"modifier", "weekday">>
        THEN Try(modifier_from(mday[1][2]),
                 LAMBDA m : Try(weekday_from(mday[2][2]),
                 LAMBDA w : Ok(RelativeDayAt(m, w, <<>>, <<>>))))
        ELSE IF r = <<"weekday">>
        THEN Try(weekday_from(mday[1][2]),
                 LAMBDA w : Ok(SameWeekDayAt(w, <<>>, <<>>)))
        ELSE IF n >= 2 /\ SubSeq(r, 1, 2) = <<"weekday", "time">>
        THEN Try(parse_time_hms(SubSeq(mday, 3, n)),
                 LAMBDA tm : Try(weekday_from(mday[1][2]),
                 LAMBDA w : Ok(SameWeekDayAt(w, <<tm.hms>>, tm.am_or_pm_maybe))))
        ELSE IF n >= 2 /\ SubSeq(r, 1, 2) = <<"shortcut_day", "time">>
        THEN Try(parse_time_hms(SubSeq(mday, 3, n)),
                 LAMBDA tm : Try(shortcut_day_from(mday[1][2]),
                 LAMBDA rd : Ok(ShortcutDayAt(rd, <<tm.hms>>, tm.am_or_pm_maybe))))
        ELSE IF r = <<"shortcut_day">>
        THEN Try(shortcut_day_from(mday[1][2]),
                 LAMBDA rd : Ok(ShortcutDayAt(rd, <<>>, <<>>)))
        ELSE Err(UnexpectedNonMatchingPattern)

\* a variant that puts the day before the month
parse_ymd_day_first(y, m, d, hms) ==
    Try(parse_i32(y),
        LAMBDA yy : Try(parse_u32(m),
        LAMBDA mm : Try(parse_u32(d),
        LAMBDA dd : Ok(ISO(<<yy, dd, mm>>, hms)))))

\* y.parse()?, m.parse()?, d.parse()? and the ISO clue
parse_ymd(y, m, d, hms) ==
    Try(parse_i32(y),
        LAMBDA yy : Try(parse_u32(m),
        LAMBDA mm : Try(parse_u32(d),
        LAMBDA dd : Ok(ISO(<<yy, mm, dd>>, hms)))))

parser_parse_time_clue(pairs) ==
    LET r == Rules(pairs)
        n == Len(pairs)
        framed == n >= 3 /\ r[1] = "time_clue" /\ r[n] = "EOI"
    IN  IF r = <<"time_clue", "now", "EOI">> THEN Ok(Now)
        ELSE IF framed /\ r[2] = "time"
        THEN parse_time_hms(SubSeq(pairs, 3, n - 1))
        ELSE IF r = <<"time_clue", "relative", "int", "quantifier", "EOI">>
        THEN Try(parse_usize(pairs[3][2]),
                 LAMBDA k : Try(quantifier_from(pairs[4][2]),
                 LAMBDA q : Ok(Relative(k, q))))
        ELSE IF r = <<"time_clue", "relative_future", "int", "quantifier", "EOI">>
        THEN Try(parse_usize(pairs[3][2]),
                 LAMBDA k : Try(quantifier_from(pairs[4][2]),
                 LAMBDA q : Ok(RelativeFuture(k, q))))
        ELSE IF framed /\ n >= 4 /\ r[2] = "day_at" /\ r[3] = "mday"
        THEN parse_mday(SubSeq(pairs, 4, n - 1))
        ELSE IF framed /\ n >= 6 /\ SubSeq(r, 2, 5) = <<"iso", "year", "month", "day">>
        THEN Try(parse_time_hms(SubSeq(pairs, 6, n - 1)),
                 LAMBDA tm : parse_ymd(pairs[3][2], pairs[4][2], pairs[5][2], tm.hms))
        ELSE IF r = <<"time_clue", "date", "day", "month", "year", "EOI">>
        THEN parse_ymd(pairs[5][2], pairs[4][2], pairs[3][2], Hms(0, 0, 0))
        ELSE Err(UnexpectedNonMatchingPattern)

(***************************************************************************)
(* The grammar (time.pest, derived by pest into TimeParser).  A text is a  *)
(* sequence of lexemes: a word, a number (its value, five limbs), one of   *)
(* the signs ":", "-", "/", "T", or white space.  TimeParser_parse gives   *)
(* the flattened pairs <<rule, text>> the parser matches on, or the        *)
(* grammar's error when no production matches.                             *)
(***************************************************************************)
Word(s) == <<"word", s>>

Num(v) == <<"num", v>>

Sign_(c) == <<"sign", c>>

Space == <<"ws", " ">>

\* the text of the number n, for 0 <= n < 2^31
Digits(n) == <<0, 0, 0, n \div LimbBase, n % LimbBase>>

IsNum(l) == l[1] = "num"

\* the lower-case form of a word (the words of Texts that have capitals)
Lower(w) ==
    CASE w = "Friday" -> "friday"
      [] w = "LAST" -> "last"
      [] w = "FRI" -> "fri"
      [] w = "PM" -> "pm"
      [] w = "Hours" -> "hours"
      [] w = "Tomorrow" -> "tomorrow"
      [] OTHER -> w

\* the grammar matches its literals without regard to letter case; the
\* text of the pair stays as written
IsWordIn(l, S) == l[1] = "word" /\ Lower(l[2]) \in S

IsSign(l, S) == l[1] = "sign" /\ l[2] \in S

\* the texts each token rule of the grammar accepts
WeekdayTokens ==
    {"monday", "mon", "tuesday", "tue", "wednesday", "wed", "thursday", "thu",
     "friday", "fri", "saturday", "sat", "sunday", "sun"}

ShortcutDayTokens == {"today", "yesterday", "tomorrow"}

ModifierTokens == {"last", "next"}

QuantifierTokens ==
    {"min", "hours", "hour", "h", "days", "day", "d", "weeks", "week", "w",
     "months", "month"}

AmOrPmTokens == {"am", "pm", "xm"}

\* a variant in which white space is part of what the productions match
NoSpace_kept(s) == s

NoSpace(s) == SelectSeq(s, LAMBDA l : l[1] # "ws")

\* H, H:M or H:M:S and an optional am/pm token: the hms and am_or_pm pairs
TimePairs(ts) ==
    LET n == Len(ts)
        marked == n >= 2 /\ IsWordIn(ts[n], AmOrPmTokens)
        k == IF marked THEN n - 1 ELSE n
    IN  IF /\ k \in {1, 3, 5}
           /\ \A i \in 1..k : IF i % 2 = 1 THEN IsNum(ts[i]) ELSE IsSign(ts[i], {":"})
        THEN <<[j \in 1..((k + 1) \div 2) |-> <<"hms", ts[2 * j - 1][2]>>]
               \o (IF marked THEN <<<<"am_or_pm", ts[n][2]>>>> ELSE <<>>)>>
        ELSE <<>>

\* an optional match followed by what F makes of it
Then(m, F(_)) == IF m = <<>> THEN <<>> ELSE <<F(m[1])>>

\* the first of two optional matches
OrElse(m, other) == IF m # <<>> THEN m ELSE other

\* [at time] after a day
AtTimePairs(ts) ==
    IF ts = <<>> THEN <<<<>>>>
    ELSE IF IsWordIn(ts[1], {"at"})
    THEN Then(TimePairs(Tail(ts)), LAMBDA tp : <<<<"time", "">>>> \o tp)
    ELSE <<>>

DayAtPairs(ts) ==
    IF Len(ts) >= 2 /\ IsWordIn(ts[1], ModifierTokens) /\ IsWordIn(ts[2], WeekdayTokens)
    THEN Then(AtTimePairs(SubSeq(ts, 3, Len(ts))),
              LAMBDA tp : <<<<"day_at", "">>, <<"mday", "">>, <<"modifier", ts[1][2]>>,
                            <<"weekday", ts[2][2]>>>> \o tp)
    ELSE IF Len(ts) >= 1 /\ IsWordIn(ts[1], WeekdayTokens)
    THEN Then(AtTimePairs(Tail(ts)),
              LAMBDA tp : <<<<"day_at", "">>, <<"mday", "">>, <<"weekday", ts[1][2]>>>>
                          \o tp)
    ELSE IF Len(ts) >= 1 /\ IsWordIn(ts[1], ShortcutDayTokens)
    THEN Then(AtTimePairs(Tail(ts)),
              LAMBDA tp : <<<<"day_at", "">>, <<"mday", "">>,
                            <<"shortcut_day", ts[1][2]>>>> \o tp)
    ELSE <<>>

ClueBody(ts) ==
    LET n == Len(ts)
    IN  IF n = 1 /\ IsWordIn(ts[1], {"now"}) THEN <<<<<<"now", "now">>>>>>
        ELSE IF n >= 7 /\ IsNum(ts[1]) /\ IsSign(ts[2], {"-"}) /\ IsNum(ts[3])
                /\ IsSign(ts[4], {"-"}) /\ IsNum(ts[5]) /\ IsSign(ts[6], {"T"})
        THEN Then(TimePairs(SubSeq(ts, 7, n)),
                  LAMBDA tp : <<<<"iso", "">>, <<"year", ts[1][2]>>, <<"month", ts[3][2]>>,
                                <<"day", ts[5][2]>>>> \o tp)
        ELSE IF n = 5 /\ IsNum(ts[1]) /\ IsSign(ts[2], {"/", "-"}) /\ IsNum(ts[3])
                /\ IsSign(ts[4], {"/", "-"}) /\ IsNum(ts[5])
        THEN <<<<<<"date", "">>, <<"day", ts[1][2]>>, <<"month", ts[3][2]>>,
                 <<"year", ts[5][2]>>>>>>
        ELSE IF n = 3 /\ IsNum(ts[1]) /\ IsWordIn(ts[2], QuantifierTokens)
                /\ IsWordIn(ts[3], {"ago"})
        THEN <<<<<<"relative", "">>, <<"int", ts[1][2]>>, <<"quantifier", ts[2][2]>>>>>>
        ELSE IF n = 3 /\ IsWordIn(ts[1], {"in"}) /\ IsNum(ts[2])
                /\ IsWordIn(ts[3], QuantifierTokens)
        THEN <<<<<<"relative_future", "">>, <<"int", ts[2][2]>>,
                 <<"quantifier", ts[3][2]>>>>>>
        ELSE OrElse(DayAtPairs(ts),
                    Then(TimePairs(ts), LAMBDA tp : <<<<"time", "">>>> \o tp))

\* the pairs of a matched text, or the grammar's error
Framed(body) ==
    IF body # <<>>
    THEN Ok(<<<<"time_clue", "">>>> \o body[1] \o <<<<"EOI", "">>>>)
    ELSE Err(PestError)

\* TimeParser::parse(Rule::time_clue, s), flattened
TimeParser_parse(s) == Framed(ClueBody(NoSpace(s)))

parse_time_clue_from_str(s) ==
    Try(TimeParser_parse(s), LAMBDA pairs : parser_parse_time_clue(pairs))

(***************************************************************************)
(* The public entry points (lib.rs).  A call gives what it returned and    *)
(* the functions it went through.                                          *)
(***************************************************************************)
HTPError_ParseError(e) == [kind |-> "HTPError::ParseError", source |-> e]

HTPError_EvaluationError(e) == [kind |-> "HTPError::EvaluationError", source |-> e]

\* `?` on a parser result and on an interpreter result: the error is
\* converted into the HTPError that wraps it (#[from])
from_parse_error(r) == IF IsErr(r) THEN Err(HTPError_ParseError(r.err)) ELSE r

from_evaluation_error(r) == IF IsErr(r) THEN Err(HTPError_EvaluationError(r.err)) ELSE r

\* what parse_time_clue does with the parser's result
parse_time_clue_then(time_clue, now, assume_next_day, backend, overflow_checks) ==
    IF IsErr(time_clue)
    THEN [ret |-> from_parse_error(time_clue),
          trace |-> <<"parse_time_clue", "parse_time_clue_from_str">>]
    ELSE [ret |-> from_evaluation_error(
                      evaluate_time_clue(time_clue.val, now, assume_next_day, backend,
                                         overflow_checks)),
          trace |-> <<"parse_time_clue", "parse_time_clue_from_str",
                      "evaluate_time_clue">>]

\* now.into() hands the interpreter the reference instant as the unified
\* DateTime.  On a value that is already unified (parse passes one) into() is
\* the identity; DateTime_from is the identity there too, its offset being UTC.
parse_time_clue(s, now, assume_next_day, backend, overflow_checks) ==
    parse_time_clue_then(parse_time_clue_from_str(s), DateTime_from(now, backend),
                         assume_next_day, backend, overflow_checks)

\* a call made from f: f comes first in the trace
Called(f, r) == [ret |-> r.ret, trace |-> <<f>> \o r.trace]

\* A variant of parse that asks for the roll-forward
parse_rolling(s, now, backend, overflow_checks) ==
    Called("parse",
           parse_time_clue(s, DateTime_from(now, backend), TRUE, backend, overflow_checks))

parse(s, now, backend, overflow_checks) ==
    Called("parse",
           parse_time_clue(s, DateTime_from(now, backend), FALSE, backend, overflow_checks))

(***************************************************************************)
(* The inputs the calls are drawn from.                                    *)
(***************************************************************************)
AmPmMaybe == {<<>>, <<"AM">>, <<"PM">>}

\* hours around the limits 12 and 24, one above 2^16, and the top of u32,
\* where h + 12 no longer fits
HourSamples ==
    {U32(0), U32(8), U32(11), U32(12), U32(19), U32(23), U32(24),
     U32(LimbBase + 5), U32Top(12), U32Top(11), U32Top(0)}

MinuteSamples == {U32(0), U32(43), U32(59), U32(60)}

SecondSamples == {U32(0), U32(59), U32(60)}

HmsSamples == HourSamples \X MinuteSamples \X SecondSamples

\* the times of day of the Time clues
ClueHms ==
    {Hms(0, 0, 0), Hms(8, 0, 0), Hms(11, 59, 59), Hms(12, 0, 0), Hms(19, 43, 42),
     Hms(23, 59, 59), Hms(24, 0, 0), Hms(19, 60, 0), Hms(19, 43, 60),
     <<U32Top(11), U32(0), U32(0)>>, <<U32Top(0), U32(30), U32(0)>>}

\* the optional time and AM/PM marker of the day clues
DayTimes ==
    {<<<<>>, <<>>>>, <<<<>>, <<"PM">>>>,
     <<<<Hms(9, 0, 0)>>, <<>>>>, <<<<Hms(19, 43, 0)>>, <<>>>>,
     <<<<Hms(24, 0, 0)>>, <<>>>>, <<<<Hms(9, 30, 0)>>, <<"AM">>>>,
     <<<<Hms(9, 0, 0)>>, <<"PM">>>>, <<<<Hms(19, 43, 0)>>, <<"PM">>>>}

Modifiers == {"Last", "Next"}

ShortcutDays == {"Today", "Yesterday", "Tomorrow"}

Quantifiers == {"Min", "Hours", "Days", "Weeks", "Months"}

WeekdaySet == {Weekdays[i] : i \in 1..7}

\* small counts, and the largest values of usize
Counts == {Usize(k) : k \in 0..MaxN} \cup {UsizeTop(k) : k \in 0..(MaxTop - 1)}

IsoDates ==
    {<<y, U32(md[1]), U32(md[2])>> :
        y \in {2020, 2021},
        md \in {<<2, 29>>, <<2, 30>>, <<12, 31>>, <<13, 1>>, <<4, 31>>, <<1, 0>>, <<7, 12>>}}

IsoTimes ==
    {Hms(19, 43, 42), Hms(0, 0, 0), Hms(24, 0, 0), Hms(25, 0, 0), Hms(23, 59, 60),
     Hms(0, 60, 0)}

TimeClues ==
    {Now}
    \cup {Time(hms, a) : hms \in ClueHms, a \in AmPmMaybe}
    \cup {Relative(n, q) : n \in Counts, q \in Quantifiers}
    \cup {RelativeFuture(n, q) : n \in Counts, q \in Quantifiers}
    \cup {RelativeDayAt(mo, w, dt[1], dt[2]) : mo \in Modifiers, w \in WeekdaySet, dt \in DayTimes}
    \cup {SameWeekDayAt(w, dt[1], dt[2]) : w \in WeekdaySet, dt \in DayTimes}
    \cup {ShortcutDayAt(r, dt[1], dt[2]) : r \in ShortcutDays, dt \in DayTimes}
    \cup {ISO(ymd, hms) : ymd \in IsoDates, hms \in IsoTimes}

\* the reference instants: every day of the week of Monday 2020-07-06 (and the
\* days after it), and 2020-12-24, the day of the crate's example; midnight,
\* 12:45:00 and the last second of the day; UTC and an offset on either side
FirstDay == DaysFromCivil(2020, 7, 6)

ExampleDay == DaysFromCivil(2020, 12, 24)

RefDays == (FirstDay .. (FirstDay + NumDays - 1)) \cup {ExampleDay}

Clocks == {0, 12 * 3600 + 45 * 60, SecondsPerDay - 1}

Offsets == {0, 3600, -5 * 3600}

Nows == {Instant(d, c, o) : d \in RefDays, c \in Clocks, o \in Offsets}

Backends == {"chrono", "time"}

\* the phrases
Texts ==
    {<<Word("now")>>,
     <<Num(Digits(9))>>,
     <<Num(Digits(8))>>,
     <<Num(Digits(13))>>,
     <<Num(Digits(12)), Sign_(":"), Num(Digits(30))>>,
     <<Num(Digits(9)), Space, Word("pm")>>,
     <<Num(Digits(12)), Space, Word("pm")>>,
     <<Num(Digits(9)), Space, Word("xm")>>,
     <<Num(<<0, 0, 1, 0, 0>>), Space, Word("xm")>>,
     <<Num(Digits(25)), Sign_(":"), Num(Digits(99))>>,
     <<Num(Digits(19)), Sign_(":"), Num(Digits(43)), Sign_(":"), Num(Digits(42))>>,
     <<Num(<<0, 0, 1, 0, 0>>)>>,
     <<Num(<<0, 0, 0, 65535, 65535>>), Sign_(":"), Num(Digits(70000)), Sign_(":"),
       Num(Digits(99)), Space, Word("am")>>,
     <<Num(Digits(9)), Sign_(":"), Num(<<0, 0, 1, 0, 0>>), Space, Word("pm")>>,
     <<Num(Digits(2)), Space, Word("min"), Space, Word("ago")>>,
     <<Num(Digits(2)), Word("min"), Word("ago")>>,
     <<Num(Digits(2)), Word("min"), Space, Word("ago")>>,
     <<Num(Digits(2)), Space, Space, Space, Word("min"), Space, Space, Word("ago")>>,
     <<Word("in"), Space, Num(Digits(2)), Space, Word("min")>>,
     <<Word("in"), Space, Num(Digits(2)), Word("min")>>,
     <<Word("in"), Num(Digits(2)), Word("min")>>,
     <<Word("in"), Space, Space, Num(Digits(2)), Space, Space, Space, Word("min")>>,
     <<Num(<<1, 0, 0, 0, 0>>), Space, Word("days"), Space, Word("ago")>>,
     <<Word("in"), Space, Num(Digits(2)), Space, Word("days")>>,
     <<Word("last"), Space, Word("friday"), Space, Word("at"), Space,
       Num(Digits(19)), Sign_(":"), Num(Digits(43))>>,
     <<Word("next"), Space, Word("friday")>>,
     <<Word("friday"), Space, Word("at"), Space, Num(Digits(19)), Sign_(":"),
       Num(Digits(43))>>,
     <<Word("tomorrow")>>,
     <<Word("yesterday"), Space, Word("at"), Space, Num(Digits(7))>>,
     <<Word("today"), Space, Word("at"), Space, Num(Digits(24))>>,
     <<Num(Digits(2020)), Sign_("-"), Num(Digits(12)), Sign_("-"), Num(Digits(25)),
       Sign_("T"), Num(Digits(19)), Sign_(":"), Num(Digits(43)), Sign_(":"),
       Num(Digits(42))>>,
     <<Num(Digits(2020)), Sign_("-"), Num(Digits(2)), Sign_("-"), Num(Digits(30)),
       Sign_("T"), Num(Digits(0)), Sign_(":"), Num(Digits(0)), Sign_(":"),
       Num(Digits(0))>>,
     <<Num(Digits(2020)), Sign_("-"), Num(Digits(12)), Sign_("-"), Num(Digits(25)),
       Sign_("T"), Num(Digits(19)), Sign_(":"), Num(Digits(43))>>,
     <<Num(Digits(2020)), Sign_("-"), Num(Digits(12)), Sign_("-"), Num(Digits(25)),
       Sign_("T"), Num(Digits(19))>>,
     <<Num(Digits(25)), Sign_("/"), Num(Digits(12)), Sign_("/"), Num(Digits(2020))>>,
     <<Num(Digits(25)), Sign_("-"), Num(Digits(12)), Sign_("-"), Num(Digits(2020))>>,
     <<Word("hello")>>,
     <<Word("Friday")>>,
     <<Word("LAST"), Space, Word("FRI")>>,
     <<Num(Digits(9)), Space, Word("PM")>>,
     <<Num(Digits(2)), Space, Word("Hours"), Space, Word("ago")>>,
     <<Word("Tomorrow")>>,
     <<Word("friday")>>,
     <<Word("last"), Space, Word("fri")>>,
     <<Num(Digits(2)), Space, Word("hours"), Space, Word("ago")>>,
     <<Num(Digits(9)), Space, Num(Digits(9))>>,
     <<>>}

(***************************************************************************)
(* The specification: one call of one function.                            *)
(***************************************************************************)
Init ==
    /\ op = "idle"
    /\ args = [none |-> TRUE]
    /\ result = [tag |-> "None"]
    /\ trace = <<>>

CallCheckHms ==
    /\ op = "idle"
    /\ \E hms \in HmsSamples, a \in AmPmMaybe, oc \in BOOLEAN :
          /\ op' = "check_hms"
          /\ args' = [hms |-> hms, am_or_pm_maybe |-> a, overflow_checks |-> oc]
          /\ result' = check_hms(hms, a, oc)
          /\ trace' = <<"check_hms">>

CallEvaluate ==
    /\ op = "idle"
    /\ \E c \in TimeClues, now \in Nows, b \in Backends, oc \in BOOLEAN :
          /\ op' = "evaluate"
          /\ args' = [time_clue |-> c, now |-> now, assume_next_day |-> FALSE,
                      backend |-> b, overflow_checks |-> oc]
          /\ result' = evaluate(c, now, b, oc)
          /\ trace' = <<"evaluate", "evaluate_time_clue">>

CallEvaluateTimeClue ==
    /\ op = "idle"
    /\ \E c \in TimeClues, now \in Nows, f \in BOOLEAN, b \in Backends, oc \in BOOLEAN :
          /\ op' = "evaluate_time_clue"
          /\ args' = [time_clue |-> c, now |-> now, assume_next_day |-> f,
                      backend |-> b, overflow_checks |-> oc]
          /\ result' = evaluate_time_clue(c, now, f, b, oc)
          /\ trace' = <<"evaluate_time_clue">>

CallParseTimeClueFromStr ==
    /\ op = "idle"
    /\ \E s \in Texts :
          /\ op' = "parse_time_clue_from_str"
          /\ args' = [s |-> s]
          /\ result' = parse_time_clue_from_str(s)
          /\ trace' = <<"parse_time_clue_from_str">>

CallParseTimeClue ==
    /\ op = "idle"
    /\ \E s \in Texts, now \in Nows, f \in BOOLEAN, b \in Backends, oc \in BOOLEAN :
          /\ op' = "parse_time_clue"
          /\ args' = [s |-> s, now |-> now, assume_next_day |-> f,
                      backend |-> b, overflow_checks |-> oc]
          /\ \E r \in {parse_time_clue(s, now, f, b, oc)} :
                 result' = r.ret /\ trace' = r.trace

CallParse ==
    /\ op = "idle"
    /\ \E s \in Texts, now \in Nows, b \in Backends, oc \in BOOLEAN :
          /\ op' = "parse"
          /\ args' = [s |-> s, now |-> now, backend |-> b, overflow_checks |-> oc]
          /\ \E r \in {parse(s, now, b, oc)} :
                 result' = r.ret /\ trace' = r.trace

Next ==
    \/ CallCheckHms
    \/ CallEvaluate
    \/ CallEvaluateTimeClue
    \/ CallParseTimeClueFromStr
    \/ CallParseTimeClue
    \/ CallParse

Spec == Init /\ [][Next]_vars

(***************************************************************************)
(* The properties.  They are stated on the state a call leaves: op is the  *)
(* function called, args its arguments, result what it returned.  The      *)
(* expected results are computed here from the arguments alone, with       *)
(* unbounded arithmetic, not with the operators of the model.              *)
(***************************************************************************)
Evaluating(kind) ==
    /\ op \in {"evaluate_time_clue", "evaluate"}
    /\ args.time_clue.kind = kind

\* the hours an AM/PM marker adds
PmShift(a) == IF a = <<"PM">> THEN 12 ELSE 0

\* h' < 24, m < 60 and s < 60 for the numbers themselves (a u32 with a high
\* limb is 65536 or more)
ValidClock(hms, a) ==
    /\ \A i \in 1..3 : hms[i][1] = 0
    /\ hms[1][2] + PmShift(a) < 24
    /\ hms[2][2] < 60
    /\ hms[3][2] < 60

\* the second of the day of a valid (h', m, s)
ClockSeconds(hms, a) == (hms[1][2] + PmShift(a)) * 3600 + hms[2][2] * 60 + hms[3][2]

\* the time a day clue carries, midnight when it carries none
ClueClock(c) ==
    IF c.hms_maybe = <<>> THEN <<<<0, 0>>, <<0, 0>>, <<0, 0>>>> ELSE c.hms_maybe[1]

\* 0 for Monday .. 6 for Sunday
WeekdayIndex(w) == CHOOSE i \in 0..6 : Weekdays[i + 1] = w

\* day 0, 2020-01-01, is a Wednesday
DayIndex(day) == (day + 2) % 7

\* the Monday of the calendar week of an instant, read in its own offset
MondayOfWeek(t) == t.day - DayIndex(t.day)

\* C1: parse(text, now) returns exactly what parse_time_clue(text, now, false)
\* returns; a parse error comes back wrapped as HTPError::ParseError and the
\* interpreter is not called; an evaluation error comes back wrapped as
\* HTPError::EvaluationError.
C1_ParseIsParseThenEvaluate ==
    op = "parse" =>
        /\ result = parse_time_clue(args.s, args.now, FALSE, args.backend,
                                 args.overflow_checks).ret
        /\ IsErr(parse_time_clue_from_str(args.s)) =>
              /\ result = Err(HTPError_ParseError(parse_time_clue_from_str(args.s).err))
              /\ \A i \in 1..Len(trace) : trace[i] # "evaluate_time_clue"
        /\ IsOk(parse_time_clue_from_str(args.s)) =>
              LET e == evaluate_time_clue(parse_time_clue_from_str(args.s).val,
                                          DateTime_from(args.now, args.backend), FALSE,
                                          args.backend, args.overflow_checks)
              IN  /\ \E i \in 1..Len(trace) : trace[i] = "evaluate_time_clue"
                  /\ IsErr(e) => result = Err(HTPError_EvaluationError(e.err))
                  /\ IsOk(e) => result = e

\* parse of "8" at 12:45:00 UTC: 08:00:00 of the same day, not rolled
C1_Witness ==
    /\ op = "parse"
    /\ args.s = <<Num(Digits(8))>>
    /\ args.now = Instant(FirstDay, 12 * 3600 + 45 * 60, 0)
    /\ result = Ok(Instant(FirstDay, 8 * 3600, 0))

\* C2: Time(hms, ampm) with valid hms evaluates to the reference instant's
\* calendar day with the clock set to the validated hms, plus one day if and
\* only if the roll-forward flag is set and that timestamp is strictly earlier
\* than the reference instant.
C2_TimeRollForward ==
    (Evaluating("Time") /\ ValidClock(args.time_clue.hms, args.time_clue.am_or_pm_maybe)) =>
        LET now == args.now
            clock == ClockSeconds(args.time_clue.hms, args.time_clue.am_or_pm_maybe)
            rolled == args.assume_next_day /\ clock < now.sec
        IN  result = Ok(Instant(IF rolled THEN now.day + 1 ELSE now.day, clock, now.off))

\* 08:00:00 asked at 12:45:00 with the flag set: the next day
C2_Witness ==
    /\ Evaluating("Time")
    /\ args.time_clue = Time(Hms(8, 0, 0), <<>>)
    /\ args.assume_next_day
    /\ args.now.sec = 12 * 3600 + 45 * 60
    /\ IsOk(result)
    /\ result.val.day = args.now.day + 1
    /\ result.val.sec = 8 * 3600

\* C3: RelativeDayAt(Last, weekday, hms?, ampm?) with valid hms evaluates to
\* the weekday's day in the reference instant's Monday-based week when
\* index(weekday) < index(now.weekday), and to that day minus 7 otherwise, with
\* the validated hms (midnight when absent) as its time of day.
C3_LastWeekday ==
    (/\ Evaluating("RelativeDayAt")
     /\ args.time_clue.modifier = "Last"
     /\ ValidClock(ClueClock(args.time_clue), args.time_clue.am_or_pm_maybe)) =>
        LET now == args.now
            in_week == MondayOfWeek(now) + WeekdayIndex(args.time_clue.weekday)
            day == IF WeekdayIndex(args.time_clue.weekday) < DayIndex(now.day)
                   THEN in_week ELSE in_week - 7
        IN  result = Ok(Instant(day,
                             ClockSeconds(ClueClock(args.time_clue),
                                          args.time_clue.am_or_pm_maybe),
                             now.off))

\* last friday at 19:43 asked on Thursday 2020-12-24: 2020-12-18T19:43:00
C3_Witness ==
    /\ Evaluating("RelativeDayAt")
    /\ args.time_clue = RelativeDayAt("Last", "Fri", <<Hms(19, 43, 0)>>, <<>>)
    /\ args.now.day = ExampleDay
    /\ IsOk(result)
    /\ result.val.day = DaysFromCivil(2020, 12, 18)
    /\ result.val.sec = 19 * 3600 + 43 * 60

\* C4: RelativeDayAt(Next, weekday, hms?, ampm?) with valid hms evaluates to
\* the weekday's day in the reference instant's Monday-based week when
\* index(weekday) > index(now.weekday), and to that day plus 7 otherwise, with
\* the validated hms (midnight when absent) as its time of day.
C4_NextWeekday ==
    (/\ Evaluating("RelativeDayAt")
     /\ args.time_clue.modifier = "Next"
     /\ ValidClock(ClueClock(args.time_clue), args.time_clue.am_or_pm_maybe)) =>
        LET now == args.now
            in_week == MondayOfWeek(now) + WeekdayIndex(args.time_clue.weekday)
            day == IF WeekdayIndex(args.time_clue.weekday) > DayIndex(now.day)
                   THEN in_week ELSE in_week + 7
        IN  result = Ok(Instant(day,
                             ClockSeconds(ClueClock(args.time_clue),
                                          args.time_clue.am_or_pm_maybe),
                             now.off))

\* next friday asked on Sunday 2020-07-12T12:45:00: 2020-07-17T00:00:00
C4_Witness ==
    /\ Evaluating("RelativeDayAt")
    /\ args.time_clue = RelativeDayAt("Next", "Fri", <<>>, <<>>)
    /\ args.now.day = DaysFromCivil(2020, 7, 12)
    /\ args.now.sec = 12 * 3600 + 45 * 60
    /\ result = Ok(Instant(DaysFromCivil(2020, 7, 17), 0, args.now.off))

\* C5: SameWeekDayAt(weekday, hms?, ampm?) with valid hms evaluates to the day
\* monday + index(weekday) of the reference instant's week, a day of that
\* Monday..Sunday week whether it is before or after the reference day, with
\* the validated hms (midnight when absent) as its time of day.
C5_SameWeekDay ==
    (/\ Evaluating("SameWeekDayAt")
     /\ ValidClock(ClueClock(args.time_clue), args.time_clue.am_or_pm_maybe)) =>
        /\ result = Ok(Instant(MondayOfWeek(args.now) + WeekdayIndex(args.time_clue.weekday),
                            ClockSeconds(ClueClock(args.time_clue),
                                         args.time_clue.am_or_pm_maybe),
                            args.now.off))
        /\ result.val.day \in MondayOfWeek(args.now) .. (MondayOfWeek(args.now) + 6)

\* tuesday asked on the Friday of the same week: three days back
C5_Witness ==
    /\ Evaluating("SameWeekDayAt")
    /\ args.time_clue.weekday = "Tue"
    /\ DayIndex(args.now.day) = 4
    /\ IsOk(result)
    /\ result.val.day = args.now.day - 3

\* C6: ShortcutDayAt(shortcut, hms?, ampm?) with valid hms evaluates to the
\* reference instant's date shifted by 0 (Today), -1 (Yesterday) or +1
\* (Tomorrow) days, with the validated hms as its time of day, midnight when no
\* time is given: the reference instant's time of day is not carried over.
C6_ShortcutDay ==
    (/\ Evaluating("ShortcutDayAt")
     /\ ValidClock(ClueClock(args.time_clue), args.time_clue.am_or_pm_maybe)) =>
        LET shift == CASE args.time_clue.rday = "Today" -> 0
                       [] args.time_clue.rday = "Yesterday" -> -1
                       [] args.time_clue.rday = "Tomorrow" -> 1
        IN  result = Ok(Instant(args.now.day + shift,
                             ClockSeconds(ClueClock(args.time_clue),
                                          args.time_clue.am_or_pm_maybe),
                             args.now.off))

\* yesterday, no time given, asked at 12:45:00: midnight of the day before
C6_Witness ==
    /\ Evaluating("ShortcutDayAt")
    /\ args.time_clue = ShortcutDayAt("Yesterday", <<>>, <<>>)
    /\ args.now.sec = 12 * 3600 + 45 * 60
    /\ result = Ok(Instant(args.now.day - 1, 0, args.now.off))

\* the seconds of one unit of a quantifier
UnitSeconds(q) ==
    CASE q = "Min" -> 60
      [] q = "Hours" -> 3600
      [] q = "Days" -> 86400
      [] q = "Weeks" -> 7 * 86400
      [] q = "Months" -> 30 * 86400

\* C7: Relative(n, q) evaluates to now minus n*unit(q) and RelativeFuture(n, q)
\* to now plus n*unit(q), unit being 60 s, 3600 s, 86400 s, 7*86400 s and
\* 30*86400 s.  For a count of 65536 or more, whose product is not written out
\* here, the result is at least 65536 units away on the side the clue names.
C7_RelativeUnits ==
    (Evaluating("Relative") \/ Evaluating("RelativeFuture")) =>
        LET n == args.time_clue.n
            unit == UnitSeconds(args.time_clue.quantifier)
            side == IF args.time_clue.kind = "Relative" THEN -1 ELSE 1
        IN  /\ IsOk(result)
            /\ result.val.off = args.now.off
            /\ IF n[1] = 0 /\ n[2] = 0 /\ n[3] = 0
               THEN Utc(result.val) = Utc(args.now) + side * n[4] * unit
               ELSE (side * (Utc(result.val) - Utc(args.now))) \div unit >= LimbBase

\* the six fields are a day of the calendar and a time of the day
ValidIso(ymd, hms) ==
    /\ ymd[2][1] = 0
    /\ ymd[3][1] = 0
    /\ \A i \in 1..3 : hms[i][1] = 0
    /\ ValidDate(ymd[1], ymd[2][2], ymd[3][2])
    /\ ValidTime(hms[1][2], hms[2][2], hms[3][2])

\* C8: ISO((y, mo, d), (h, mi, s)) with valid fields evaluates to the timestamp
\* that, read in the reference instant's offset, has exactly the fields
\* y-mo-d h:mi:s, whatever the reference offset.
C8_IsoInReferenceOffset ==
    (Evaluating("ISO") /\ ValidIso(args.time_clue.ymd, args.time_clue.hms)) =>
        result = Ok(Instant(DaysFromCivil(args.time_clue.ymd[1], args.time_clue.ymd[2][2],
                                       args.time_clue.ymd[3][2]),
                         args.time_clue.hms[1][2] * 3600 + args.time_clue.hms[2][2] * 60
                            + args.time_clue.hms[3][2],
                         args.now.off))

\* C9: ISO((y, mo, d), (h, mi, s)) whose fields are no calendar date-time fails
\* with ChronoISOError carrying the six fields: no timestamp is returned, and
\* an hour out of range is not reported as InvalidTime.
C9_InvalidIso ==
    (Evaluating("ISO") /\ ~ValidIso(args.time_clue.ymd, args.time_clue.hms)) =>
        result = Err(ChronoISOError(args.time_clue.ymd[1], args.time_clue.ymd[2],
                                 args.time_clue.ymd[3], args.time_clue.hms[1],
                                 args.time_clue.hms[2], args.time_clue.hms[3]))

\* 2020-02-30T00:00:00 evaluated with chrono: the ISO error
C9_Witness ==
    /\ Evaluating("ISO")
    /\ args.backend = "chrono"
    /\ args.time_clue = ISO(<<2020, U32(2), U32(30)>>, Hms(0, 0, 0))
    /\ IsErr(result)
    /\ result.err.kind = "ChronoISOError"

\* C10: check_hms((h, m, s), ampm) succeeds if and only if h' < 24, m < 60 and
\* s < 60, where h' is h + 12 for PM and h for AM or no marker, and on success
\* returns (h', m, s).
C10_CheckHms ==
    op = "check_hms" =>
        /\ IsOk(result) <=> ValidClock(args.hms, args.am_or_pm_maybe)
        /\ IsOk(result) =>
              result.val = <<<<0, args.hms[1][2] + PmShift(args.am_or_pm_maybe)>>,
                          args.hms[2], args.hms[3]>>

\* C11: for all h, m, s with h < 24, m < 60 and s < 60,
\* check_hms((h, m, s), Some(PM)) returns (h + 12, m, s).
C11_PmAddsTwelve ==
    (/\ op = "check_hms"
     /\ args.am_or_pm_maybe = <<"PM">>
     /\ \A i \in 1..3 : args.hms[i][1] = 0
     /\ args.hms[1][2] < 24
     /\ args.hms[2][2] < 60
     /\ args.hms[3][2] < 60) =>
        result = Ok(<<<<0, args.hms[1][2] + 12>>, args.hms[2], args.hms[3]>>)

\* C11, amended: for all h, m, s with h < 12, m < 60 and s < 60,
\* check_hms((h, m, s), Some(PM)) returns (h + 12, m, s); for 12 <= h < 24 it
\* fails with InvalidTimeAMPM carrying h, m, s and PM.
C11_PmAddsTwelveBelowNoon ==
    (/\ op = "check_hms"
     /\ args.am_or_pm_maybe = <<"PM">>
     /\ \A i \in 1..3 : args.hms[i][1] = 0
     /\ args.hms[1][2] < 24
     /\ args.hms[2][2] < 60
     /\ args.hms[3][2] < 60) =>
        IF args.hms[1][2] < 12
        THEN result = Ok(<<<<0, args.hms[1][2] + 12>>, args.hms[2], args.hms[3]>>)
        ELSE result = Err([kind |-> "InvalidTimeAMPM", hour |-> args.hms[1],
                           minute |-> args.hms[2], second |-> args.hms[3],
                           am_or_pm |-> "PM"])

\* 11:59:59 PM: (23, 59, 59)
C11_Witness ==
    /\ op = "check_hms"
    /\ args.am_or_pm_maybe = <<"PM">>
    /\ args.hms = <<<<0, 11>>, <<0, 59>>, <<0, 59>>>>
    /\ result = Ok(<<<<0, 23>>, <<0, 59>>, <<0, 59>>>>)

\* C12: when check_hms rejects its input the error is InvalidTimeAMPM with the
\* caller's h, m, s and the marker if a marker (AM or PM) was given, and
\* InvalidTime with h, m, s if none was; the hour is the input hour, not the
\* adjusted one.  An hour of 24 is rejected whatever the marker.
C12_RejectionVariant ==
    op = "check_hms" =>
        /\ IsErr(result) =>
              result.err =
                 IF args.am_or_pm_maybe # <<>>
                 THEN [kind |-> "InvalidTimeAMPM", hour |-> args.hms[1],
                       minute |-> args.hms[2], second |-> args.hms[3],
                       am_or_pm |-> args.am_or_pm_maybe[1]]
                 ELSE [kind |-> "InvalidTime", hour |-> args.hms[1],
                       minute |-> args.hms[2], second |-> args.hms[3]]
        /\ args.hms[1] = <<0, 24>> => IsErr(result)

\* 19:43:00 PM is rejected, and the error carries 19, not 31
C12_Witness ==
    /\ op = "check_hms"
    /\ args.hms = <<<<0, 19>>, <<0, 43>>, <<0, 0>>>>
    /\ args.am_or_pm_maybe = <<"PM">>
    /\ IsErr(result)
    /\ result.err.kind = "InvalidTimeAMPM"
    /\ result.err.hour = <<0, 19>>

\* C13: Now evaluates to the reference instant, unchanged, whatever the
\* roll-forward flag; it never fails.
C13_NowIsNow ==
    Evaluating("Now") => result = Ok(args.now)

\* Now evaluated with the flag set, at a reference instant that is not UTC
C13_Witness ==
    /\ op = "evaluate_time_clue"
    /\ args.time_clue.kind = "Now"
    /\ args.assume_next_day
    /\ args.now.off # 0
    /\ args.now.sec # 0
    /\ result = Ok(args.now)

\* the lexemes of a text that are not white space
Lexemes(s) == SelectSeq(s, LAMBDA l : l[1] # "ws")

\* the number of lexemes of ts before a trailing am or pm
ClockLen(ts) ==
    IF Len(ts) >= 2 /\ ts[Len(ts)] \in {<<"word", "am">>, <<"word", "pm">>}
    THEN Len(ts) - 1
    ELSE Len(ts)

\* ts reads H, H:M or H:M:S, with am or pm after it or nothing
IsClockPhrase(ts) ==
    /\ ClockLen(ts) \in {1, 3, 5}
    /\ \A i \in 1..ClockLen(ts) :
          IF i % 2 = 1 THEN ts[i][1] = "num" ELSE ts[i] = <<"sign", ":">>

\* the number text v fits in 32 bits
FitsU32(v) == v[1] = 0 /\ v[2] = 0 /\ v[3] = 0

\* the j-th number of a clock phrase as a 32-bit value, 0 when it is missing
ClockField(ts, j) ==
    IF 2 * j - 1 <= ClockLen(ts) THEN <<ts[2 * j - 1][2][4], ts[2 * j - 1][2][5]>>
    ELSE <<0, 0>>

ClockMarker(ts) ==
    IF ClockLen(ts) = Len(ts) THEN <<>>
    ELSE IF ts[Len(ts)][2] = "am" THEN <<"AM">> ELSE <<"PM">>

\* C14: the parser validates nothing: a clock phrase H, H:M or H:M:S with
\* an optional am/pm parses to Time((h, m or 0, s or 0), marker) whatever
\* the values, as long as each fits in 32 bits, and to the integer-parse
\* error as soon as one does not.
C14_ParserDoesNotValidate ==
    (op = "parse_time_clue_from_str" /\ IsClockPhrase(Lexemes(args.s))) =>
        IF \A i \in 1..ClockLen(Lexemes(args.s)) :
               i % 2 = 1 => FitsU32(Lexemes(args.s)[i][2])
        THEN result = Ok([kind |-> "Time",
                          hms |-> <<ClockField(Lexemes(args.s), 1),
                                    ClockField(Lexemes(args.s), 2),
                                    ClockField(Lexemes(args.s), 3)>>,
                          am_or_pm_maybe |-> ClockMarker(Lexemes(args.s))])
        ELSE result = Err(ParseInt)

\* "4294967295:70000:99 am" parses, with every value kept as written
C14_Witness ==
    /\ op = "parse_time_clue_from_str"
    /\ args.s = <<Num(<<0, 0, 0, 65535, 65535>>), Sign_(":"), Num(Digits(70000)),
                  Sign_(":"), Num(Digits(99)), Space, Word("am")>>
    /\ result = Ok([kind |-> "Time",
                    hms |-> <<<<65535, 65535>>, <<1, 4464>>, <<0, 99>>>>,
                    am_or_pm_maybe |-> <<"AM">>])

\* C15: the amount of white space between tokens, none included, does not
\* change what a phrase parses to: two texts with the same tokens give the
\* same result, "2 min ago" in any spacing gives Relative(2, Min) and
\* "in 2 min" in any spacing gives RelativeFuture(2, Min).
C15_WhitespaceInsensitive ==
    op = "parse_time_clue_from_str" =>
        /\ \A t \in Texts :
              Lexemes(t) = Lexemes(args.s) => result = parse_time_clue_from_str(t)
        /\ Lexemes(args.s) = <<<<"num", <<0, 0, 0, 0, 2>>>>, <<"word", "min">>,
                               <<"word", "ago">>>>
              => result = Ok([kind |-> "Relative", n |-> <<0, 0, 0, 2>>,
                              quantifier |-> "Min"])
        /\ Lexemes(args.s) = <<<<"word", "in">>, <<"num", <<0, 0, 0, 0, 2>>>>,
                               <<"word", "min">>>>
              => result = Ok([kind |-> "RelativeFuture", n |-> <<0, 0, 0, 2>>,
                              quantifier |-> "Min"])

\* "2   min  ago" is parsed to Relative(2, Min)
C15_Witness ==
    /\ op = "parse_time_clue_from_str"
    /\ args.s = <<Num(Digits(2)), Space, Space, Space, Word("min"), Space, Space,
                  Word("ago")>>
    /\ result = Ok(Relative(Usize(2), "Min"))

\* a text with every word in lower case
LowerText(s) ==
    [i \in 1..Len(s) |-> IF s[i][1] = "word" THEN <<"word", Lower(s[i][2])>> ELSE s[i]]

\* C16: a phrase that differs from an accepted phrase only in letter case
\* parses, and to the same Time Clue as its lower-case form.
C16_CaseInsensitive ==
    (op = "parse_time_clue_from_str" /\ IsOk(parse_time_clue_from_str(LowerText(args.s)))) =>
        result = parse_time_clue_from_str(LowerText(args.s))

\* the literals the parser knows for a token rule
KnownLiterals(rule) ==
    CASE rule = "weekday" ->
           {"monday", "mon", "tuesday", "tue", "wednesday", "wed", "thursday", "thu",
            "friday", "fri", "saturday", "sat", "sunday", "sun"}
      [] rule = "shortcut_day" -> {"today", "yesterday", "tomorrow"}
      [] rule = "modifier" -> {"last", "next"}
      [] rule = "quantifier" ->
           {"min", "hours", "hour", "h", "days", "day", "d", "weeks", "week", "w",
            "months", "month"}
      [] rule = "am_or_pm" -> {"am", "pm"}

UnknownKind(rule) ==
    CASE rule = "weekday" -> "UnknownWeekday"
      [] rule = "shortcut_day" -> "UnknownShortcutDay"
      [] rule = "modifier" -> "UnknownModifier"
      [] rule = "quantifier" -> "UnknownQuantifier"
      [] rule = "am_or_pm" -> "UnknownAMPM"

\* the unknown-token errors of the tokens of pairs whose text is not a
\* known literal of their rule
UnknownTokenErrors(pairs) ==
    {[kind |-> UnknownKind(pairs[i][1]), text |-> pairs[i][2]] :
        i \in {j \in 1..Len(pairs) :
                  /\ pairs[j][1] \in {"weekday", "shortcut_day", "modifier",
                                       "quantifier", "am_or_pm"}
                  /\ pairs[j][2] \notin KnownLiterals(pairs[j][1])}}

\* some number of pairs does not fit the type it is parsed into
SomeNumberTooLarge(pairs) ==
    \E i \in 1..Len(pairs) :
        \/ pairs[i][1] \in {"hms", "month", "day"} /\ ~FitsU32(pairs[i][2])
        \/ pairs[i][1] = "int" /\ pairs[i][2][1] # 0
        \/ pairs[i][1] = "year"
             /\ ~(FitsU32(pairs[i][2]) /\ pairs[i][2][4] < LimbBase \div 2)

\* the text of the call is matched by the grammar and has a token that is
\* not a known literal of its rule
HasUnknownToken ==
    /\ op = "parse_time_clue_from_str"
    /\ IsOk(TimeParser_parse(args.s))
    /\ UnknownTokenErrors(TimeParser_parse(args.s).val) # {}

\* C17, as stated: when a token the grammar classifies as weekday, shortcut
\* day, modifier, quantifier or am-or-pm is not a known literal, parsing
\* fails with the unknown-token error of that category carrying the text.
C17_UnknownToken ==
    HasUnknownToken =>
        /\ IsErr(result)
        /\ result.err \in UnknownTokenErrors(TimeParser_parse(args.s).val)

\* C17, amended: parsing fails, with the unknown-token error of such a
\* token, or with the integer-parse error when a number of the phrase does
\* not fit its type.
C17_UnknownTokenOrParseInt ==
    HasUnknownToken =>
        /\ IsErr(result)
        /\ \/ result.err \in UnknownTokenErrors(TimeParser_parse(args.s).val)
           \/ /\ result.err = ParseInt
              /\ SomeNumberTooLarge(TimeParser_parse(args.s).val)

\* "9 xm" fails with UnknownAMPM("xm")
C17_Witness ==
    /\ op = "parse_time_clue_from_str"
    /\ args.s = <<Num(Digits(9)), Space, Word("xm")>>
    /\ result = Err([kind |-> "UnknownAMPM", text |-> "xm"])

\* the number text v fits in a signed 32-bit integer
FitsI32(v) == FitsU32(v) /\ v[4] < LimbBase \div 2

\* ts reads Y-M-DTH, Y-M-DTH:M or Y-M-DTH:M:S
IsIsoPhrase(ts) ==
    /\ Len(ts) \in {7, 9, 11}
    /\ \A i \in {1, 3, 5} : ts[i][1] = "num"
    /\ ts[2] = <<"sign", "-">> /\ ts[4] = <<"sign", "-">> /\ ts[6] = <<"sign", "T">>
    /\ IsClockPhrase(SubSeq(ts, 7, Len(ts)))
    /\ ClockLen(SubSeq(ts, 7, Len(ts))) = Len(ts) - 6

\* ts reads D/M/Y or D-M-Y
IsDatePhrase(ts) ==
    /\ Len(ts) = 5
    /\ \A i \in {1, 3, 5} : ts[i][1] = "num"
    /\ ts[2] = ts[4]
    /\ ts[2] \in {<<"sign", "/">>, <<"sign", "-">>}

\* the i-th lexeme of ts, a number, as a 32-bit value
NumberAt(ts, i) == <<ts[i][2][4], ts[i][2][5]>>

\* C18: Y-M-DTH:M:S parses to ISO((y, m, d), (h, mi, s)), the minutes and
\* seconds 0 when they are missing; D/M/Y and D-M-Y parse to
\* ISO((y, m, d), (0, 0, 0)): the day-first order of the text becomes
\* (year, month, day) and the time is midnight.
C18_IsoAndDate ==
    op = "parse_time_clue_from_str" =>
        /\ (/\ IsIsoPhrase(Lexemes(args.s))
            /\ FitsI32(Lexemes(args.s)[1][2])
            /\ \A i \in 3..Len(Lexemes(args.s)) :
                  Lexemes(args.s)[i][1] = "num" => FitsU32(Lexemes(args.s)[i][2]))
           => result =
                Ok([kind |-> "ISO",
                    ymd |-> <<Lexemes(args.s)[1][2][4] * LimbBase + Lexemes(args.s)[1][2][5],
                              NumberAt(Lexemes(args.s), 3), NumberAt(Lexemes(args.s), 5)>>,
                    hms |-> <<ClockField(SubSeq(Lexemes(args.s), 7, Len(Lexemes(args.s))), 1),
                              ClockField(SubSeq(Lexemes(args.s), 7, Len(Lexemes(args.s))), 2),
                              ClockField(SubSeq(Lexemes(args.s), 7, Len(Lexemes(args.s))), 3)>>])
        /\ (/\ IsDatePhrase(Lexemes(args.s))
            /\ FitsI32(Lexemes(args.s)[5][2])
            /\ FitsU32(Lexemes(args.s)[3][2])
            /\ FitsU32(Lexemes(args.s)[1][2]))
           => result =
                Ok([kind |-> "ISO",
                    ymd |-> <<Lexemes(args.s)[5][2][4] * LimbBase + Lexemes(args.s)[5][2][5],
                              NumberAt(Lexemes(args.s), 3), NumberAt(Lexemes(args.s), 1)>>,
                    hms |-> <<<<0, 0>>, <<0, 0>>, <<0, 0>>>>])

\* "25/12/2020" parses to ISO((2020, 12, 25), (0, 0, 0))
C18_Witness ==
    /\ op = "parse_time_clue_from_str"
    /\ args.s = <<Num(Digits(25)), Sign_("/"), Num(Digits(12)), Sign_("/"),
                  Num(Digits(2020))>>
    /\ result = Ok(ISO(<<2020, U32(12), U32(25)>>, <<U32(0), U32(0), U32(0)>>))

\* "2020-12-25T19" parses to ISO((2020, 12, 25), (19, 0, 0))
C18_WitnessIso ==
    /\ op = "parse_time_clue_from_str"
    /\ Lexemes(args.s) = <<Num(Digits(2020)), Sign_("-"), Num(Digits(12)), Sign_("-"),
                           Num(Digits(25)), Sign_("T"), Num(Digits(19))>>
    /\ result = Ok(ISO(<<2020, U32(12), U32(25)>>, <<U32(19), U32(0), U32(0)>>))

\* C19: every evaluation runs to completion and returns a timestamp or a
\* typed evaluation error, whatever the Time Clue and the reference
\* instant; none ends by an abort.
C19_EvaluationCompletes ==
    op \in {"evaluate_time_clue", "evaluate"} => IsOk(result) \/ IsErr(result)

\* C20: check_hms rejects every hour of 12 or more combined with PM, over
\* the whole range of u32: adding 12 never wraps a huge hour into an
\* accepted one.
C20_PmNeverWraps ==
    (/\ op = "check_hms"
     /\ args.am_or_pm_maybe = <<"PM">>
     /\ ~U32Lt(args.hms[1], 12)) => IsErr(result)

\* C21: the roll-forward flag matters to bare times only: for every other
\* Time Clue and every reference instant, the evaluation with the flag set
\* and the evaluation with the flag unset give the same result, timestamp or
\* error.
C21_FlagOnlyForTime ==
    (op = "evaluate_time_clue" /\ args.time_clue.kind # "Time") =>
        result = evaluate_time_clue(args.time_clue, args.now, ~args.assume_next_day,
                                    args.backend, args.overflow_checks)

\* a bare weekday evaluated with the flag set to an instant before the
\* reference instant: the flag has not moved it
C21_Witness ==
    /\ op = "evaluate_time_clue"
    /\ args.time_clue.kind = "SameWeekDayAt"
    /\ args.assume_next_day
    /\ IsOk(result)
    /\ Before(result.val, args.now)

\* t is not before now and less than one day after it
WithinADayAfter(t, now) ==
    Utc(now) <= Utc(t) /\ Utc(t) < Utc(now) + SecondsPerDay

\* C22: with the roll-forward flag set, a Time clue that evaluates gives a
\* timestamp t with now <= t < now + 1 day, now being the reference instant
\* of the caller, whether the clue is evaluated directly or parsed from a
\* text and evaluated by parse_time_clue.
C22_RolledWithinADay ==
    /\ (/\ op = "evaluate_time_clue"
        /\ args.time_clue.kind = "Time"
        /\ args.assume_next_day
        /\ IsOk(result)) => WithinADayAfter(result.val, args.now)
    /\ (/\ op = "parse_time_clue"
        /\ IsClockPhrase(Lexemes(args.s))
        /\ args.assume_next_day
        /\ IsOk(result)) => WithinADayAfter(result.val, args.now)

\* C22 for the interpreter alone: evaluate_time_clue on a Time clue with the
\* flag set
C22_InterpreterWithinADay ==
    (/\ op = "evaluate_time_clue"
     /\ args.time_clue.kind = "Time"
     /\ args.assume_next_day
     /\ IsOk(result)) => WithinADayAfter(result.val, args.now)

\* C24: the conversion of the caller's reference instant into the unified
\* DateTime keeps the point in time, for both backends and any offset: the
\* converted value is the same instant, and "now" resolves to the instant
\* the caller gave.
C24_ConversionKeepsInstant ==
    op \in {"parse", "parse_time_clue"} =>
        /\ Utc(DateTime_from(args.now, args.backend)) = Utc(args.now)
        /\ Lexemes(args.s) = <<<<"word", "now">>>> =>
              IsOk(result) /\ Utc(result.val) = Utc(args.now)

\* C23: with a valid time, RelativeDayAt(Last, weekday, ..) gives an instant
\* on the requested weekday, 1 to 7 days before the reference date and
\* strictly before the reference instant; RelativeDayAt(Next, weekday, ..)
\* gives one on the requested weekday, 1 to 7 days after the reference date
\* and strictly after the reference instant.
C23_RelativeDayWithinAWeek ==
    (/\ Evaluating("RelativeDayAt")
     /\ ValidClock(ClueClock(args.time_clue), args.time_clue.am_or_pm_maybe)) =>
        /\ IsOk(result)
        /\ result.val.off = args.now.off
        /\ DayIndex(result.val.day) = WeekdayIndex(args.time_clue.weekday)
        /\ args.time_clue.modifier = "Last" =>
              /\ args.now.day - result.val.day \in 1..7
              /\ Utc(result.val) < Utc(args.now)
        /\ args.time_clue.modifier = "Next" =>
              /\ result.val.day - args.now.day \in 1..7
              /\ Utc(args.now) < Utc(result.val)

\* next friday asked on a Friday: the Friday seven days later
C23_Witness ==
    /\ Evaluating("RelativeDayAt")
    /\ args.time_clue.modifier = "Next"
    /\ args.time_clue.weekday = "Fri"
    /\ DayIndex(args.now.day) = 4
    /\ IsOk(result)
    /\ result.val.day = args.now.day + 7

\* last monday asked on a Tuesday: the day before
C23_WitnessLast ==
    /\ Evaluating("RelativeDayAt")
    /\ args.time_clue.modifier = "Last"
    /\ args.time_clue.weekday = "Mon"
    /\ DayIndex(args.now.day) = 1
    /\ IsOk(result)
    /\ result.val.day = args.now.day - 1

====
